---- MODULE Spec2Model ----
(***************************************************************************)
(* globus-js: a request-building layer over the Globus transfer and auth   *)
(* REST APIs (src/globus.js).  Every exported function builds one request  *)
(* descriptor and hands it to request-promise-native, which returns a      *)
(* promise.  The model keeps the most recent event at the library boundary *)
(* (an invocation with the request it built, or the settlement of a        *)
(* returned promise), the bag of promises still in flight (each with the   *)
(* request as the service routes it), counters of                          *)
(* invocations / request() calls / outbound network calls, and the part of *)
(* the remote state the documented behaviour depends on (the access rules  *)
(* and the activated endpoints).                                           *)
(*                                                                         *)
(* JavaScript strings that are built by concatenation are sequences of     *)
(* their operands; an e-mail address is a sequence of characters.  An      *)
(* options bag is a function from the supplied keys to their values; a key *)
(* that is not supplied reads as Undefined.                                *)
(***************************************************************************)
EXTENDS Integers, Sequences, FiniteSets, Bags, TLC

VARIABLES ev, pending, nCalls, nRequest, nOutbound, acl, active

vars == <<ev, pending, nCalls, nRequest, nOutbound, acl, active>>

(* ------------------------------ bounds --------------------------------- *)
MaxCalls == 2
MaxPending == 2
MaxEmailLen == 2

(* --------------------------- program constants ------------------------- *)
transferBaseURL == "https://transfer.api.globusonline.org/v0.10"
authBaseURL == "https://auth.globus.org/v2/api"

(* --------------------------- JavaScript values ------------------------- *)
Undefined == "<undefined>"

EmptyObject == [k \in {} |-> k]

\* options.k : a property that is not present reads as undefined
Get(o, k) == IF k \in DOMAIN o THEN o[k] ELSE Undefined

\* string concatenation converts undefined to the text 'undefined'
Str(v) == IF v = Undefined THEN "undefined" ELSE v

\* the values that the || operator treats as absent
Falsy(v) == v \in {Undefined, ""}

\* a || b
Or(a, b) == IF Falsy(a) THEN b ELSE a

\* JSON.stringify drops the properties whose value is undefined
JSONBody(obj) == [k \in {j \in DOMAIN obj : obj[j] # Undefined} |-> obj[k]]

\* String.prototype.replace with a string pattern: the first occurrence only
replace(s, pat, rep) ==
  IF \E i \in 1..Len(s) : s[i] = pat
  THEN LET i == CHOOSE j \in 1..Len(s) :
                    s[j] = pat /\ \A h \in 1..(j - 1) : s[h] # pat
       IN  SubSeq(s, 1, i - 1) \o <<rep>> \o SubSeq(s, i + 1, Len(s))
  ELSE s

(* ------------------------ results of an invocation --------------------- *)
NoRequest == [method |-> "", url |-> <<>>, bearer |-> Undefined,
              hasBody |-> FALSE, body |-> EmptyObject, json |-> FALSE]

\* request(url, {auth: {bearer}, method, body, json}); method defaults to GET.
\* writes holds the properties the calling function assigned on its options
\* argument: the functions read options and build new objects, none assigns
request(url, bearer, method, hasBody, body, json) ==
  [threw |-> FALSE, error |-> "", writes |-> EmptyObject,
   req |-> [method |-> method, url |-> url, bearer |-> bearer,
            hasBody |-> hasBody, body |-> body, json |-> json]]

\* throw new Error(msg)
Throw(msg) == [threw |-> TRUE, error |-> msg, writes |-> EmptyObject, req |-> NoRequest]

\* reading a property of an undefined options argument is a TypeError
Deref(o, result) == IF o.present THEN result ELSE Throw("TypeError")

(* ------------------------------ operations ----------------------------- *)
getAccessRulesList(bearerToken, options) ==
  Deref(options,
    request(<<transferBaseURL, "/endpoint/", Str(Get(options.v, "endpoint_xid")), "/access_list">>,
            bearerToken, "GET", FALSE, EmptyObject, TRUE))

getAccessRulesListById(bearerToken, options) ==
  Deref(options,
    request(<<transferBaseURL, "/endpoint/", Str(Get(options.v, "endpoint_xid")),
              "/access/", Str(Get(options.v, "id"))>>,
            bearerToken, "GET", FALSE, EmptyObject, TRUE))

createAccessRule(bearerToken, options) ==
  Deref(options,
    request(<<transferBaseURL, "/endpoint/", Str(Get(options.v, "endpoint_xid")), "/access">>,
            bearerToken, "POST", TRUE,
            JSONBody([DATA_TYPE |-> "access",
                      principal_type |-> "identity",
                      principal |-> Get(options.v, "userId"),
                      path |-> Get(options.v, "path"),
                      permissions |-> "r",
                      notify_email |-> Get(options.v, "userEmail")]),
            TRUE))

updateAccessRule(bearerToken, options) ==
  Deref(options,
    request(<<transferBaseURL, "/endpoint/", Str(Get(options.v, "endpoint_xid")),
              "/access/", Str(Get(options.v, "id"))>>,
            bearerToken, "POST", TRUE,
            JSONBody([DATA_TYPE |-> "access",
                      id |-> Get(options.v, "id"),
                      role_id |-> Get(options.v, "role_id"),
                      principal_type |-> Get(options.v, "principal_type"),
                      principal |-> Get(options.v, "principal"),
                      path |-> Get(options.v, "path"),
                      permissions |-> Get(options.v, "permissions")]),
            TRUE))

deleteAccessRule(bearerToken, options) ==
  Deref(options,
    request(<<Str(Get(options.v, "transferBaseURL")), "/endpoint/",
              Str(Get(options.v, "endpoint_xid")), "/access/", Str(Get(options.v, "id"))>>,
            bearerToken, "DELETE", FALSE, EmptyObject, FALSE))

getActivationRequirements(bearerToken, options) ==
  Deref(options,
    request(<<transferBaseURL, "/endpoint/", Str(Get(options.v, "endpoint_xid")),
              "/activation_requirements">>,
            bearerToken, "GET", FALSE, EmptyObject, FALSE))

autoActivateEndpoint(bearerToken, options) ==
  Deref(options,
    request(<<transferBaseURL, "/endpoint/", Str(Get(options.v, "endpoint_xid")), "/autoactivate">>,
            bearerToken, "POST", FALSE, EmptyObject, FALSE))

\* variant: once the request is built, the credential value is blanked in the
\* caller's document
activateEndpoint_ScrubsDocument(bearerToken, options) ==
  Deref(options,
    [request(<<transferBaseURL, "/endpoint/", Str(Get(options.v, "endpoint_xid")), "/activate">>,
             bearerToken, "POST", "document" \in DOMAIN options.v,
             IF "document" \in DOMAIN options.v THEN options.v["document"] ELSE EmptyObject,
             TRUE)
       EXCEPT !.writes = IF "document" \in DOMAIN options.v
                         THEN "document" :> [options.v["document"] EXCEPT !.value = "null"]
                         ELSE EmptyObject])

\* the body is options.document itself; without a document no body is sent
activateEndpoint(bearerToken, options) ==
  Deref(options,
    request(<<transferBaseURL, "/endpoint/", Str(Get(options.v, "endpoint_xid")), "/activate">>,
            bearerToken, "POST", "document" \in DOMAIN options.v,
            IF "document" \in DOMAIN options.v THEN options.v["document"] ELSE EmptyObject,
            TRUE))

deactivateEndpoint(bearerToken, options) ==
  Deref(options,
    request(<<transferBaseURL, "/endpoint/", Str(Get(options.v, "endpoint_xid")), "/deactivate">>,
            bearerToken, "POST", FALSE, EmptyObject, FALSE))

\* options.userEmail.replace('@', '%40'): a missing userEmail is a TypeError
getUserId(bearerToken, options) ==
  Deref(options,
    IF "userEmail" \in DOMAIN options.v
    THEN request(<<authBaseURL, "/identities?usernames=">>
                   \o replace(options.v["userEmail"], "@", "%40"),
                 bearerToken, "GET", FALSE, EmptyObject, FALSE)
    ELSE Throw("TypeError"))

getEndpointById(bearerToken, options) ==
  Deref(options,
    request(<<transferBaseURL, "/endpoint/", Str(Get(options.v, "endpoint_xid"))>>,
            bearerToken, "GET", FALSE, EmptyObject, FALSE))

createEndpoint(bearerToken, options) ==
  Deref(options,
    request(<<transferBaseURL, "/endpoint">>,
            bearerToken, "POST", TRUE,
            JSONBody([display_name |-> Get(options.v, "display_name"),
                      DATA |-> Get(options.v, "documents")]),
            TRUE))

createSharedEndpoint(bearerToken, options) ==
  Deref(options,
    request(<<transferBaseURL, "/shared_endpoint">>,
            bearerToken, "POST", TRUE,
            JSONBody([DATA_TYPE |-> "shared_endpoint",
                      display_name |-> Get(options.v, "displayName"),
                      host_endpoint |-> Get(options.v, "hostId"),
                      host_path |-> Get(options.v, "path"),
                      description |-> Get(options.v, "description"),
                      organization |-> Get(options.v, "organization")]),
            TRUE))

updateEndpointById(bearerToken, options) ==
  Deref(options,
    request(<<transferBaseURL, "/endpoint/", Str(Get(options.v, "endpoint_xid"))>>,
            bearerToken, "POST", "document" \in DOMAIN options.v,
            IF "document" \in DOMAIN options.v THEN options.v["document"] ELSE EmptyObject,
            TRUE))

deleteEndpointById(bearerToken, options) ==
  Deref(options,
    request(<<transferBaseURL, "/endpoint/", Str(Get(options.v, "endpoint_xid"))>>,
            bearerToken, "DELETE", FALSE, EmptyObject, FALSE))

getEffectivePauseRuleList(bearerToken, options) ==
  Deref(options,
    request(<<transferBaseURL, "/endpoint/", Str(Get(options.v, "endpoint_xid")),
              "/my_effective_pause_rule_list">>,
            bearerToken, "GET", FALSE, EmptyObject, FALSE))

getEndpointServerList(bearerToken, options) ==
  Deref(options,
    request(<<transferBaseURL, "/endpoint/", Str(Get(options.v, "endpoint_xid")), "/server_list">>,
            bearerToken, "GET", FALSE, EmptyObject, FALSE))

\* variant: the throw is removed and the server list is requested
getEndpointServerById_Silent(bearerToken, options) ==
  Deref(options,
    request(<<transferBaseURL, "/endpoint/", Str(Get(options.v, "endpoint_xid")), "/server_list">>,
            bearerToken, "GET", FALSE, EmptyObject, FALSE))

\* the url is computed first (a TypeError without options), then the
\* function throws before it reaches request()
getEndpointServerById(bearerToken, options) ==
  Deref(options, Throw("FIXME(param server_id not used)"))

\* variant: the defaults are not applied
addEndpointServer_NoDefaults(bearerToken, options) ==
  Deref(options,
    request(<<transferBaseURL, "/endpoint/", Str(Get(options.v, "endpoint_xid")), "/server">>,
            bearerToken, "POST", TRUE,
            JSONBody([DATA_TYPE |-> "server",
                      hostname |-> Get(options.v, "hostname"),
                      uri |-> Get(options.v, "uri"),
                      port |-> Get(options.v, "port"),
                      scheme |-> Get(options.v, "scheme")]),
            TRUE))

addEndpointServer(bearerToken, options) ==
  Deref(options,
    request(<<transferBaseURL, "/endpoint/", Str(Get(options.v, "endpoint_xid")), "/server">>,
            bearerToken, "POST", TRUE,
            JSONBody([DATA_TYPE |-> "server",
                      hostname |-> Get(options.v, "hostname"),
                      uri |-> Get(options.v, "uri"),
                      port |-> Or(Get(options.v, "port"), "2811"),
                      scheme |-> Or(Get(options.v, "scheme"), "gsiftp")]),
            TRUE))

updateEndpointServerById(bearerToken, options) ==
  Deref(options,
    request(<<transferBaseURL, "/endpoint/", Str(Get(options.v, "endpoint_xid")),
              "/server/", Str(Get(options.v, "server_id"))>>,
            bearerToken, "PUT", TRUE,
            JSONBody([DATA_TYPE |-> "server",
                      hostname |-> Get(options.v, "hostname"),
                      uri |-> Get(options.v, "uri"),
                      port |-> Or(Get(options.v, "port"), "2811"),
                      scheme |-> Or(Get(options.v, "scheme"), "gsiftp"),
                      subject |-> Get(options.v, "subject")]),
            TRUE))

deleteEndpointServerById(bearerToken, options) ==
  Deref(options,
    request(<<transferBaseURL, "/endpoint/", Str(Get(options.v, "endpoint_xid")),
              "/server/", Str(Get(options.v, "server_id"))>>,
            bearerToken, "DELETE", FALSE, EmptyObject, FALSE))

getSharedEndpointList(bearerToken, options) ==
  Deref(options,
    request(<<transferBaseURL, "/endpoint/", Str(Get(options.v, "endpoint_xid")),
              "my_shared_endpoint_list">>,
            bearerToken, "GET", FALSE, EmptyObject, FALSE))

\* variant: the extra query parameters are not appended
listDirectoryContents_NoQuery(bearerToken, options) ==
  Deref(options,
    request(<<transferBaseURL, "/operation/endpoint/", Str(Get(options.v, "endpoint_xid")),
              "/ls?path=", Or(Get(options.v, "path"), "/"), "">>,
            bearerToken, "GET", FALSE, EmptyObject, FALSE))

listDirectoryContents(bearerToken, options) ==
  Deref(options,
    request(<<transferBaseURL, "/operation/endpoint/", Str(Get(options.v, "endpoint_xid")),
              "/ls?path=", Or(Get(options.v, "path"), "/"),
              Or(Get(options.v, "query_parameters"), "")>>,
            bearerToken, "GET", FALSE, EmptyObject, FALSE))

makeDirectory(bearerToken, options) ==
  Deref(options,
    request(<<transferBaseURL, "/operation/endpoint/", Str(Get(options.v, "endpoint_xid")), "/mkdir">>,
            bearerToken, "POST", TRUE,
            JSONBody([DATA_TYPE |-> "mkdir", path |-> Get(options.v, "path")]),
            TRUE))

rename(bearerToken, options) ==
  Deref(options,
    request(<<transferBaseURL, "/operation/endpoint/", Str(Get(options.v, "endpoint_xid")), "/rename">>,
            bearerToken, "POST", TRUE,
            JSONBody([DATA_TYPE |-> "rename",
                      old_path |-> Get(options.v, "old_path"),
                      new_path |-> Get(options.v, "new_path")]),
            TRUE))

\* variant: the request is built without the caller's token
getSubmissionId_NoAuth(bearerToken, options) ==
  request(<<transferBaseURL, "/submission_id">>, Undefined, "GET", FALSE, EmptyObject, FALSE)

\* takes no options argument
getSubmissionId(bearerToken, options) ==
  request(<<transferBaseURL, "/submission_id">>, bearerToken, "GET", FALSE, EmptyObject, FALSE)

\* variant: preserve_timestamp is filled from the wrong option
submitTransferTask_WrongField(bearerToken, options) ==
  Deref(options,
    request(<<transferBaseURL, "/transfer">>,
            bearerToken, "POST", TRUE,
            JSONBody([DATA_TYPE |-> "transfer",
                      submission_id |-> Get(options.v, "submission_id"),
                      label |-> Get(options.v, "label"),
                      notify_on_succeeded |-> Get(options.v, "notify_on_succeeded"),
                      notify_on_failed |-> Get(options.v, "notify_on_failed"),
                      notify_on_inactive |-> Get(options.v, "notify_on_inactive"),
                      source_endpoint |-> Get(options.v, "source_endpoint"),
                      destination_endpoint |-> Get(options.v, "destination_endpoint"),
                      DATA |-> Get(options.v, "DATA"),
                      encrypt_data |-> Get(options.v, "encrypt_data"),
                      sync_level |-> Get(options.v, "sync_level"),
                      verify_checksum |-> Get(options.v, "verify_checksum"),
                      preserve_timestamp |-> Get(options.v, "verify_checksum"),
                      delete_destination_extra |-> Get(options.v, "delete_destination_extra")]),
            TRUE))

submitTransferTask(bearerToken, options) ==
  Deref(options,
    request(<<transferBaseURL, "/transfer">>,
            bearerToken, "POST", TRUE,
            JSONBody([DATA_TYPE |-> "transfer",
                      submission_id |-> Get(options.v, "submission_id"),
                      label |-> Get(options.v, "label"),
                      notify_on_succeeded |-> Get(options.v, "notify_on_succeeded"),
                      notify_on_failed |-> Get(options.v, "notify_on_failed"),
                      notify_on_inactive |-> Get(options.v, "notify_on_inactive"),
                      source_endpoint |-> Get(options.v, "source_endpoint"),
                      destination_endpoint |-> Get(options.v, "destination_endpoint"),
                      DATA |-> Get(options.v, "DATA"),
                      encrypt_data |-> Get(options.v, "encrypt_data"),
                      sync_level |-> Get(options.v, "sync_level"),
                      verify_checksum |-> Get(options.v, "verify_checksum"),
                      preserve_timestamp |-> Get(options.v, "preserve_timestamp"),
                      delete_destination_extra |-> Get(options.v, "delete_destination_extra")]),
            TRUE))

\* variant: the unreachable code after the throw is executed
submitDeletionTask_Implemented(bearerToken, options) ==
  Deref(options,
    request(<<transferBaseURL, "/delete">>,
            bearerToken, "POST", TRUE,
            JSONBody([DATA_TYPE |-> "delete",
                      endpoint |-> Get(options.v, "endpoint"),
                      recursive |-> Get(options.v, "recursive"),
                      ignore_missing |-> Get(options.v, "ignore_missing"),
                      interpret_globs |-> Get(options.v, "interpret_globs")]),
            TRUE))

\* throws on its first statement, before options is read
submitDeletionTask(bearerToken, options) == Throw("Not implemented")


\* module.exports: the function an exported name stands for
RequestOf(op, bearerToken, options) ==
  CASE op = "getAccessRulesList" -> getAccessRulesList(bearerToken, options)
    [] op = "getAccessRulesListById" -> getAccessRulesListById(bearerToken, options)
    [] op = "createAccessRule" -> createAccessRule(bearerToken, options)
    [] op = "updateAccessRule" -> updateAccessRule(bearerToken, options)
    [] op = "deleteAccessRule" -> deleteAccessRule(bearerToken, options)
    [] op = "getActivationRequirements" -> getActivationRequirements(bearerToken, options)
    [] op = "autoActivateEndpoint" -> autoActivateEndpoint(bearerToken, options)
    [] op = "activateEndpoint" -> activateEndpoint(bearerToken, options)
    [] op = "deactivateEndpoint" -> deactivateEndpoint(bearerToken, options)
    [] op = "getUserId" -> getUserId(bearerToken, options)
    [] op = "getEndpointById" -> getEndpointById(bearerToken, options)
    [] op = "createEndpoint" -> createEndpoint(bearerToken, options)
    [] op = "createSharedEndpoint" -> createSharedEndpoint(bearerToken, options)
    [] op = "updateEndpointById" -> updateEndpointById(bearerToken, options)
    [] op = "deleteEndpointById" -> deleteEndpointById(bearerToken, options)
    [] op = "getEffectivePauseRuleList" -> getEffectivePauseRuleList(bearerToken, options)
    [] op = "getEndpointServerList" -> getEndpointServerList(bearerToken, options)
    [] op = "getEndpointServerById" -> getEndpointServerById(bearerToken, options)
    [] op = "addEndpointServer" -> addEndpointServer(bearerToken, options)
    [] op = "updateEndpointServerById" -> updateEndpointServerById(bearerToken, options)
    [] op = "deleteEndpointServerById" -> deleteEndpointServerById(bearerToken, options)
    [] op = "getSharedEndpointList" -> getSharedEndpointList(bearerToken, options)
    [] op = "listDirectoryContents" -> listDirectoryContents(bearerToken, options)
    [] op = "makeDirectory" -> makeDirectory(bearerToken, options)
    [] op = "rename" -> rename(bearerToken, options)
    [] op = "getSubmissionId" -> getSubmissionId(bearerToken, options)
    [] op = "submitTransferTask" -> submitTransferTask(bearerToken, options)
    [] op = "submitDeletionTask" -> submitDeletionTask(bearerToken, options)

(* ------------------------------- inputs -------------------------------- *)
\* a token the service has authorized, and the empty token of the tests
Tokens == {"tokA", ""}
Ids == {"e1", "badCode"}
RuleIds == {"r1"}

Present(bag) == [present |-> TRUE, v |-> bag]
NoOptions == [present |-> FALSE, v |-> EmptyObject]

\* an optional key: absent, or supplied with one of the values
Field(k, V) == {EmptyObject} \cup {k :> x : x \in V}
Both(A, B) == {a @@ b : a \in A, b \in B}
Args(Bags) == {Present(b) : b \in Bags} \cup {NoOptions}

\* a string passed where the options object is expected: reading any named
\* property of a string yields undefined
StringArgument(s) == [present |-> TRUE, v |-> EmptyObject, str |-> s]

OneEndpoint == {"endpoint_xid" :> "e1"}

\* every string over the two characters, up to MaxEmailLen characters
Emails == UNION {[1..n -> {"u", "@"}] : n \in 0..MaxEmailLen}

Documents == {[DATA_TYPE |-> "activation_requirements", value |-> "secret"],
              [DATA_TYPE |-> "activation_requirements", value |-> "null"]}

FullTransfer == [submission_id |-> "sub1", label |-> "lbl", notify_on_succeeded |-> "true",
                 notify_on_failed |-> "true", notify_on_inactive |-> "false",
                 source_endpoint |-> "e1", destination_endpoint |-> "e2",
                 DATA |-> "items", encrypt_data |-> "false", sync_level |-> "1",
                 verify_checksum |-> "true", preserve_timestamp |-> "false",
                 delete_destination_extra |-> "false"]

EndpointOptions == Args(Field("endpoint_xid", Ids))
KnownEndpointOptions == Args(Field("endpoint_xid", {"e1"}))
RequirementsOptions == EndpointOptions \cup {StringArgument("e1")}
RuleOptions == Args(Both(OneEndpoint, Field("id", RuleIds)))
CreateAccessRuleOptions ==
  Args(Both(Both(OneEndpoint, {[userId |-> "u1", path |-> "/share/"]}),
            Both(Field("permissions", {"rw"}), Field("userEmail", {"u@x"}))))
UpdateAccessRuleOptions ==
  Args(Both(Both(OneEndpoint, {"id" :> "r1"}), Field("permissions", {"rw"})))
DeleteAccessRuleOptions ==
  Args(Both(Both(OneEndpoint, {"id" :> "r1"}), Field("transferBaseURL", {transferBaseURL})))
DocumentOptions == Args(Both(OneEndpoint, Field("document", Documents)))
UserIdOptions == Args(Field("userEmail", Emails))
CreateEndpointOptions == Args(Both(Field("display_name", {"name"}), {"documents" :> "servers"}))
CreateSharedEndpointOptions ==
  Args(Both({[displayName |-> "name", hostId |-> "e1", path |-> "/share/"]},
            Field("description", {"text"})))
ServerOptions == Args(Both(OneEndpoint, Field("server_id", {"s1"})))
AddServerOptions ==
  Args(Both(Both(OneEndpoint, {"hostname" :> "h1"}),
            Both(Field("port", {"", "8080"}), Field("scheme", {"", "ftp"}))))
UpdateServerOptions ==
  Args(Both(Both(OneEndpoint, {"server_id" :> "s1"}),
            Both(Field("hostname", {"h2"}), Field("port", {"8080"}))))
ListOptions ==
  Args(Both(OneEndpoint,
            Both(Field("path", {"", "/~/"}), Field("query_parameters", {"&limit=1"}))))
PathOptions == Args(Both(OneEndpoint, Field("path", {"/dir"})))
RenameOptions == Args(Both(OneEndpoint, {[old_path |-> "/a", new_path |-> "/b"]}))
TransferOptions ==
  Args({FullTransfer, [k \in (DOMAIN FullTransfer) \ {"submission_id"} |-> FullTransfer[k]]})
DeletionOptions == Args({[endpoint |-> "e1", DATA |-> "items", recursive |-> "true"]})

(* ---------------------------- the transport ---------------------------- *)
\* request refuses a URI without a host ('Invalid URI') and sends nothing
HasHost(url) == Len(url) > 0 /\ url[1] \in {transferBaseURL, authBaseURL}

\* the path segments the remote service routes on
EndpointOf(url) == IF Len(url) >= 3 /\ url[2] = "/endpoint/" THEN url[3] ELSE ""
RuleOf(url) == IF Len(url) >= 5 /\ url[4] = "/access/" THEN url[5] ELSE ""

\* the resources whose answers depend on the state of the service; every
\* other resource is answered alike
RoutedResources == {"/access/", "/activation_requirements", "/activate", "/deactivate"}
Route(url) ==
  IF Len(url) >= 4 /\ url[4] \in RoutedResources THEN url[4]
  ELSE IF Len(url) = 2 /\ url[2] = "/delete" THEN "/delete"
  ELSE "other"

NoValue == [parsed |-> FALSE, code |-> Undefined]

\* the `code` property the caller reads from a resolved value: a body that
\* was not deserialized (json not requested) is a string and has none
CodeOf(value) == IF value.parsed THEN value.code ELSE Undefined

\* request-promise: without simple:false only a 2xx status resolves, and the
\* promise resolves to the body (parsed when json:true)
Settlement(p, ans) ==
  IF ans.status \in 200..299
  THEN [outcome |-> "resolved", error |-> "", value |-> [parsed |-> p.json, code |-> ans.code]]
  ELSE [outcome |-> "rejected", error |-> "StatusCodeError", value |-> NoValue]

(* --------------------------- the remote service ------------------------ *)
\* the one endpoint the service knows; `active` tells whether it is activated
RemoteEndpoints == {"e1"}

GenericAnswers == {[status |-> 200, code |-> Undefined],
                   [status |-> 200, code |-> "Deactivated"],
                   [status |-> 400, code |-> "ClientError.BadRequest"],
                   [status |-> 404, code |-> "ClientError.NotFound"]}

IsRuleDelete(p) == p.method = "DELETE" /\ p.known /\ p.rid \in DOMAIN acl

\* the service refuses a request whose bearer token it has not authorized
Authorized(bearer) == bearer \notin {"", Undefined}

\* a filled-in activation requirements document: no required value is null
DocumentOK(req) == req.hasBody /\ Get(req.body, "value") \notin {Undefined, "null"}

IsDeactivate(p) == p.method = "POST" /\ p.route = "/deactivate" /\ p.known
IsActivate(p) == p.method = "POST" /\ p.route = "/activate" /\ p.known

\* DELETE /endpoint/<id>/access/<rule>: "Deleted" with status 200, and an
\* "AccessRuleNotFound" error once the rule has been deleted; an operation
\* on an endpoint that does not exist is answered ClientError.NotFound
\* POST .../deactivate: "Deactivated", and "NotActivated" when the endpoint
\* is not activated; POST .../activate: "Activated.TYPE" for a filled-in
\* document and "ClientError.BadRequest" for an invalid one
RemoteAnswers(p) ==
  IF ~p.auth
  THEN {[status |-> 401, code |-> "AuthenticationFailed"]}
  ELSE IF IsRuleDelete(p)
  THEN IF acl[p.rid] = "present"
       THEN {[status |-> 200, code |-> "Deleted"]}
       ELSE {[status |-> 404, code |-> "AccessRuleNotFound"]}
  ELSE IF p.onEndpoint /\ ~p.known
       THEN {[status |-> 404, code |-> "ClientError.NotFound"]}
  ELSE IF IsDeactivate(p)
  THEN IF p.known /\ active
       THEN {[status |-> 200, code |-> "Deactivated"]}
       ELSE {[status |-> 200, code |-> "NotActivated"]}
  ELSE IF IsActivate(p)
  THEN IF p.docOK
       THEN {[status |-> 200, code |-> "Activated.MyProxyCredential"]}
       ELSE {[status |-> 400, code |-> "ClientError.BadRequest"]}
  ELSE GenericAnswers

\* the activated endpoints after the service has handled the request
RemoteActive(p, ans) ==
  IF IsDeactivate(p) /\ ans.code = "Deactivated" THEN FALSE
  ELSE IF IsActivate(p) /\ ans.status = 200 THEN TRUE
  ELSE active

(* ------------------------------- actions -------------------------------- *)
Init ==
  /\ ev = [kind |-> "init"]
  /\ pending = EmptyBag
  /\ nCalls = 0
  /\ nRequest = 0
  /\ nOutbound = 0
  /\ acl = [r \in RuleIds |-> "present"]
  /\ active = TRUE

\* variant: the token is kept in a module-level variable that is set by the
\* first call only, so a later call sends the token of an earlier one
Invoke_SharedToken(op, bearerToken, options, result) ==
  LET token == IF ev.kind = "call" THEN ev.token ELSE bearerToken
      req == [result.req EXCEPT !.bearer = IF result.threw THEN @ ELSE token]
  IN
  /\ result.threw \/ BagCardinality(pending) < MaxPending
  /\ nCalls' = nCalls + 1
  /\ ev' = [kind |-> "call", n |-> nCalls + 1, op |-> op, token |-> bearerToken,
            options |-> options, after |-> result.writes @@ options.v,
            threw |-> result.threw, error |-> result.error,
            req |-> req, sent |-> ~result.threw /\ HasHost(req.url)]
  /\ IF result.threw
     THEN UNCHANGED <<pending, nRequest, nOutbound>>
     ELSE /\ nRequest' = nRequest + 1
          /\ nOutbound' = IF HasHost(req.url) THEN nOutbound + 1 ELSE nOutbound
          /\ pending' = pending (+) SetToBag(
               {[route |-> Route(req.url), json |-> req.json,
                 method |-> req.method, sent |-> HasHost(req.url),
                 onEndpoint |-> EndpointOf(req.url) # "",
                 known |-> EndpointOf(req.url) \in RemoteEndpoints,
                 rid |-> RuleOf(req.url),
                 auth |-> Authorized(req.bearer),
                 docOK |-> DocumentOK(req)]})
  /\ UNCHANGED <<acl, active>>

\* one invocation of an exported function: it throws, or it calls request()
\* once and returns the promise (the caller makes at most MaxCalls calls)
Invoke(op, bearerToken, options, result) ==
  /\ result.threw \/ BagCardinality(pending) < MaxPending
  /\ nCalls' = nCalls + 1
  /\ ev' = [kind |-> "call", n |-> nCalls + 1, op |-> op, token |-> bearerToken,
            options |-> options, after |-> result.writes @@ options.v,
            threw |-> result.threw, error |-> result.error,
            req |-> result.req, sent |-> ~result.threw /\ HasHost(result.req.url)]
  /\ IF result.threw
     THEN UNCHANGED <<pending, nRequest, nOutbound>>
     ELSE /\ nRequest' = nRequest + 1
          /\ nOutbound' = IF HasHost(result.req.url) THEN nOutbound + 1 ELSE nOutbound
          /\ pending' = pending (+) SetToBag(
               {[route |-> Route(result.req.url), json |-> result.req.json,
                 method |-> result.req.method, sent |-> HasHost(result.req.url),
                 onEndpoint |-> EndpointOf(result.req.url) # "",
                 known |-> EndpointOf(result.req.url) \in RemoteEndpoints,
                 rid |-> RuleOf(result.req.url),
                 auth |-> Authorized(result.req.bearer),
                 docOK |-> DocumentOK(result.req)]})
  /\ UNCHANGED <<acl, active>>

CallGetAccessRulesList ==
  \E bearerToken \in Tokens, options \in KnownEndpointOptions :
    /\ nCalls < MaxCalls
    /\ Invoke("getAccessRulesList", bearerToken, options, getAccessRulesList(bearerToken, options))

CallGetAccessRulesListById ==
  \E bearerToken \in Tokens, options \in RuleOptions :
    /\ nCalls < MaxCalls
    /\ Invoke("getAccessRulesListById", bearerToken, options, getAccessRulesListById(bearerToken, options))

CallCreateAccessRule ==
  \E bearerToken \in Tokens, options \in CreateAccessRuleOptions :
    /\ nCalls < MaxCalls
    /\ Invoke("createAccessRule", bearerToken, options, createAccessRule(bearerToken, options))

CallUpdateAccessRule ==
  \E bearerToken \in Tokens, options \in UpdateAccessRuleOptions :
    /\ nCalls < MaxCalls
    /\ Invoke("updateAccessRule", bearerToken, options, updateAccessRule(bearerToken, options))

CallDeleteAccessRule ==
  \E bearerToken \in Tokens, options \in DeleteAccessRuleOptions :
    /\ nCalls < MaxCalls
    /\ Invoke("deleteAccessRule", bearerToken, options, deleteAccessRule(bearerToken, options))

CallGetActivationRequirements ==
  \E bearerToken \in Tokens, options \in RequirementsOptions :
    /\ nCalls < MaxCalls
    /\ Invoke("getActivationRequirements", bearerToken, options, getActivationRequirements(bearerToken, options))

CallAutoActivateEndpoint ==
  \E bearerToken \in Tokens, options \in KnownEndpointOptions :
    /\ nCalls < MaxCalls
    /\ Invoke("autoActivateEndpoint", bearerToken, options, autoActivateEndpoint(bearerToken, options))

CallActivateEndpoint ==
  \E bearerToken \in Tokens, options \in DocumentOptions :
    /\ nCalls < MaxCalls
    /\ Invoke("activateEndpoint", bearerToken, options, activateEndpoint(bearerToken, options))

CallDeactivateEndpoint ==
  \E bearerToken \in Tokens, options \in EndpointOptions :
    /\ nCalls < MaxCalls
    /\ Invoke("deactivateEndpoint", bearerToken, options, deactivateEndpoint(bearerToken, options))

CallGetUserId ==
  \E bearerToken \in Tokens, options \in UserIdOptions :
    /\ nCalls < MaxCalls
    /\ Invoke("getUserId", bearerToken, options, getUserId(bearerToken, options))

CallGetEndpointById ==
  \E bearerToken \in Tokens, options \in EndpointOptions :
    /\ nCalls < MaxCalls
    /\ Invoke("getEndpointById", bearerToken, options, getEndpointById(bearerToken, options))

CallCreateEndpoint ==
  \E bearerToken \in Tokens, options \in CreateEndpointOptions :
    /\ nCalls < MaxCalls
    /\ Invoke("createEndpoint", bearerToken, options, createEndpoint(bearerToken, options))

CallCreateSharedEndpoint ==
  \E bearerToken \in Tokens, options \in CreateSharedEndpointOptions :
    /\ nCalls < MaxCalls
    /\ Invoke("createSharedEndpoint", bearerToken, options, createSharedEndpoint(bearerToken, options))

CallUpdateEndpointById ==
  \E bearerToken \in Tokens, options \in DocumentOptions :
    /\ nCalls < MaxCalls
    /\ Invoke("updateEndpointById", bearerToken, options, updateEndpointById(bearerToken, options))

CallDeleteEndpointById ==
  \E bearerToken \in Tokens, options \in KnownEndpointOptions :
    /\ nCalls < MaxCalls
    /\ Invoke("deleteEndpointById", bearerToken, options, deleteEndpointById(bearerToken, options))

CallGetEffectivePauseRuleList ==
  \E bearerToken \in Tokens, options \in KnownEndpointOptions :
    /\ nCalls < MaxCalls
    /\ Invoke("getEffectivePauseRuleList", bearerToken, options, getEffectivePauseRuleList(bearerToken, options))

CallGetEndpointServerList ==
  \E bearerToken \in Tokens, options \in KnownEndpointOptions :
    /\ nCalls < MaxCalls
    /\ Invoke("getEndpointServerList", bearerToken, options, getEndpointServerList(bearerToken, options))

CallGetEndpointServerById ==
  \E bearerToken \in Tokens, options \in ServerOptions :
    /\ nCalls < MaxCalls
    /\ Invoke("getEndpointServerById", bearerToken, options, getEndpointServerById(bearerToken, options))

CallAddEndpointServer ==
  \E bearerToken \in Tokens, options \in AddServerOptions :
    /\ nCalls < MaxCalls
    /\ Invoke("addEndpointServer", bearerToken, options, addEndpointServer(bearerToken, options))

CallUpdateEndpointServerById ==
  \E bearerToken \in Tokens, options \in UpdateServerOptions :
    /\ nCalls < MaxCalls
    /\ Invoke("updateEndpointServerById", bearerToken, options, updateEndpointServerById(bearerToken, options))

CallDeleteEndpointServerById ==
  \E bearerToken \in Tokens, options \in ServerOptions :
    /\ nCalls < MaxCalls
    /\ Invoke("deleteEndpointServerById", bearerToken, options, deleteEndpointServerById(bearerToken, options))

CallGetSharedEndpointList ==
  \E bearerToken \in Tokens, options \in KnownEndpointOptions :
    /\ nCalls < MaxCalls
    /\ Invoke("getSharedEndpointList", bearerToken, options, getSharedEndpointList(bearerToken, options))

CallListDirectoryContents ==
  \E bearerToken \in Tokens, options \in ListOptions :
    /\ nCalls < MaxCalls
    /\ Invoke("listDirectoryContents", bearerToken, options, listDirectoryContents(bearerToken, options))

CallMakeDirectory ==
  \E bearerToken \in Tokens, options \in PathOptions :
    /\ nCalls < MaxCalls
    /\ Invoke("makeDirectory", bearerToken, options, makeDirectory(bearerToken, options))

CallRename ==
  \E bearerToken \in Tokens, options \in RenameOptions :
    /\ nCalls < MaxCalls
    /\ Invoke("rename", bearerToken, options, rename(bearerToken, options))

CallGetSubmissionId ==
  \E bearerToken \in Tokens, options \in {NoOptions} :
    /\ nCalls < MaxCalls
    /\ Invoke("getSubmissionId", bearerToken, options, getSubmissionId(bearerToken, options))

CallSubmitTransferTask ==
  \E bearerToken \in Tokens, options \in TransferOptions :
    /\ nCalls < MaxCalls
    /\ Invoke("submitTransferTask", bearerToken, options, submitTransferTask(bearerToken, options))

CallSubmitDeletionTask ==
  \E bearerToken \in Tokens, options \in DeletionOptions :
    /\ nCalls < MaxCalls
    /\ Invoke("submitDeletionTask", bearerToken, options, submitDeletionTask(bearerToken, options))

\* the request was never sent: the promise rejects with the 'Invalid URI' error
InvalidURI ==
  \E p \in BagToSet(pending) :
    /\ ~p.sent
    /\ pending' = pending (-) SetToBag({p})
    /\ ev' = [kind |-> "settle", route |-> p.route, method |-> p.method, json |-> p.json,
              answered |-> FALSE, cause |-> "InvalidURI", status |-> 0, code |-> Undefined,
              outcome |-> "rejected", error |-> "RequestError", value |-> NoValue,
              ruleGone |-> FALSE, auth |-> p.auth, docOK |-> p.docOK, wasActive |-> FALSE]
    /\ UNCHANGED <<nCalls, nRequest, nOutbound, acl, active>>

\* connection refused, timeout: the promise rejects, nothing is sent again
NetworkFailure ==
  \E p \in BagToSet(pending) :
    /\ p.sent
    /\ pending' = pending (-) SetToBag({p})
    /\ ev' = [kind |-> "settle", route |-> p.route, method |-> p.method, json |-> p.json,
              answered |-> FALSE, cause |-> "network", status |-> 0, code |-> Undefined,
              outcome |-> "rejected", error |-> "RequestError", value |-> NoValue,
              ruleGone |-> FALSE, auth |-> p.auth, docOK |-> p.docOK, wasActive |-> FALSE]
    /\ UNCHANGED <<nCalls, nRequest, nOutbound, acl, active>>

\* the remote service answers and the promise settles on the answer
Response ==
  \E p \in BagToSet(pending) :
    /\ p.sent
    /\ \E ans \in RemoteAnswers(p) :
         LET s == Settlement(p, ans) IN
         /\ ev' = [kind |-> "settle", route |-> p.route, method |-> p.method, json |-> p.json,
                   answered |-> TRUE, cause |-> "answer", status |-> ans.status,
                   code |-> ans.code, outcome |-> s.outcome, error |-> s.error,
                   value |-> s.value,
                   ruleGone |-> IsRuleDelete(p) /\ acl[p.rid] = "deleted",
                   auth |-> p.auth, docOK |-> p.docOK, wasActive |-> active]
         /\ acl' = IF p.auth /\ IsRuleDelete(p) THEN [acl EXCEPT ![p.rid] = "deleted"] ELSE acl
         /\ active' = RemoteActive(p, ans)
    /\ pending' = pending (-) SetToBag({p})
    /\ UNCHANGED <<nCalls, nRequest, nOutbound>>

Next ==
  \/ CallGetAccessRulesList
  \/ CallGetAccessRulesListById
  \/ CallCreateAccessRule
  \/ CallUpdateAccessRule
  \/ CallDeleteAccessRule
  \/ CallGetActivationRequirements
  \/ CallAutoActivateEndpoint
  \/ CallActivateEndpoint
  \/ CallDeactivateEndpoint
  \/ CallGetUserId
  \/ CallGetEndpointById
  \/ CallCreateEndpoint
  \/ CallCreateSharedEndpoint
  \/ CallUpdateEndpointById
  \/ CallDeleteEndpointById
  \/ CallGetEffectivePauseRuleList
  \/ CallGetEndpointServerList
  \/ CallGetEndpointServerById
  \/ CallAddEndpointServer
  \/ CallUpdateEndpointServerById
  \/ CallDeleteEndpointServerById
  \/ CallGetSharedEndpointList
  \/ CallListDirectoryContents
  \/ CallMakeDirectory
  \/ CallRename
  \/ CallGetSubmissionId
  \/ CallSubmitTransferTask
  \/ CallSubmitDeletionTask
  \/ InvalidURI
  \/ NetworkFailure
  \/ Response

Spec == Init /\ [][Next]_vars

(* ------------------------------ properties ------------------------------ *)
IsCall(op) == ev.kind = "call" /\ ev.op = op
Issued(op) == IsCall(op) /\ ~ev.threw
Contains(seq, x) == \E i \in 1..Len(seq) : seq[i] = x

\* C1: every request handed to the transport carries, as its bearer
\* credential, the token of the invocation that built it, unchanged.
C1_BearerIsCallerToken ==
  ev.kind = "call" /\ ~ev.threw => ev.req.bearer = ev.token /\ ev.req.bearer \in Tokens

C1_Witness ==
  Issued("getSubmissionId") /\ ev.n = 2 /\ ev.token = "" /\ ev.req.bearer = ""

\* C2: every invocation that reaches request() causes exactly one outbound
\* network call, so the outbound calls number as many as those invocations.
C2_OneOutboundCallPerInvocation ==
  /\ nOutbound = nRequest
  /\ (ev.kind = "call" /\ ~ev.threw => ev.sent)

\* C3: submitDeletionTask fails with 'Not implemented' for every token and
\* every options value, missing options included, and sends nothing.
C3_DeletionNotImplemented ==
  /\ IsCall("submitDeletionTask") =>
       ev.threw /\ ev.error = "Not implemented" /\ ~ev.sent /\ ev.req = NoRequest
  /\ \A p \in BagToSet(pending) : p.route # "/delete"
  /\ ev.kind = "settle" => ev.route # "/delete"

C3_Witness ==
  IsCall("submitDeletionTask") /\ ~ev.options.present /\ ev.threw /\ ev.n = 2 /\ nRequest = 1

\* C4: getEndpointServerById either issues a request that names the requested
\* server, or fails explicitly without any outbound request.
C4_ServerByIdNeverSilent ==
  IsCall("getEndpointServerById") =>
    \/ ev.threw /\ ev.error # "" /\ ~ev.sent /\ ev.req = NoRequest
    \/ /\ ~ev.threw
       /\ "server_id" \in DOMAIN ev.options.v
       /\ Contains(ev.req.url, ev.options.v["server_id"])

C4_Witness ==
  /\ IsCall("getEndpointServerById")
  /\ ev.options.present /\ "server_id" \in DOMAIN ev.options.v
  /\ ev.threw /\ ev.error = "FIXME(param server_id not used)"

AddServerShape ==
  /\ ev.req.method = "POST"
  /\ ev.req.url = <<transferBaseURL, "/endpoint/", Str(Get(ev.options.v, "endpoint_xid")), "/server">>
  /\ ev.req.hasBody
  /\ Get(ev.req.body, "DATA_TYPE") = "server"
  /\ Get(ev.req.body, "hostname") = Get(ev.options.v, "hostname")

\* C5 (as amended): addEndpointServer POSTs to <transferBase>/endpoint/<id>/server
\* a body with DATA_TYPE 'server' and the given hostname; a port or scheme
\* that is omitted or empty is sent as "2811" / "gsiftp", and a non-empty
\* supplied port or scheme is sent unchanged.
C5_AddServerDefaults ==
  Issued("addEndpointServer") =>
    /\ AddServerShape
    /\ \A k \in {"port", "scheme"} :
         LET given == Get(ev.options.v, k)
             dflt == IF k = "port" THEN "2811" ELSE "gsiftp"
         IN  Get(ev.req.body, k) = IF given \in {Undefined, ""} THEN dflt ELSE given

C5_Witness ==
  /\ Issued("addEndpointServer")
  /\ Get(ev.options.v, "port") = "8080" /\ "scheme" \notin DOMAIN ev.options.v
  /\ Get(ev.req.body, "port") = "8080" /\ Get(ev.req.body, "scheme") = "gsiftp"

\* C5 (as stated): an omitted port or scheme is sent as "2811" / "gsiftp"
\* and every supplied port or scheme is sent unchanged.
C5_SuppliedValueUnchanged ==
  Issued("addEndpointServer") =>
    /\ AddServerShape
    /\ \A k \in {"port", "scheme"} :
         Get(ev.req.body, k) =
           IF k \in DOMAIN ev.options.v THEN ev.options.v[k]
           ELSE IF k = "port" THEN "2811" ELSE "gsiftp"

\* C6: getUserId issues a GET to <authBase>/identities?usernames=<email> whose
\* URL holds no literal '@': every '@' of the e-mail is sent as '%40'.
C6_EveryAtEncoded ==
  Issued("getUserId") =>
    /\ ev.req.method = "GET"
    /\ SubSeq(ev.req.url, 1, 2) = <<authBaseURL, "/identities?usernames=">>
    /\ Len(ev.req.url) = 2 + Len(ev.options.v["userEmail"])
    /\ ~Contains(ev.req.url, "@")

\* C7: createAccessRule POSTs to <transferBase>/endpoint/<id>/access a body with
\* the principal, the path, the notification e-mail and the permission of
\* options.permissions, which is 'r' only when options.permissions is omitted.
C7_PermissionFromOptions ==
  Issued("createAccessRule") =>
    /\ ev.req.method = "POST"
    /\ ev.req.url = <<transferBaseURL, "/endpoint/", Str(Get(ev.options.v, "endpoint_xid")), "/access">>
    /\ Get(ev.req.body, "principal") = Get(ev.options.v, "userId")
    /\ Get(ev.req.body, "path") = Get(ev.options.v, "path")
    /\ Get(ev.req.body, "notify_email") = Get(ev.options.v, "userEmail")
    /\ Get(ev.req.body, "permissions") =
         IF "permissions" \in DOMAIN ev.options.v THEN ev.options.v["permissions"] ELSE "r"

\* C8: a deleteAccessRule call that meets no network failure resolves, and
\* when the rule had already been deleted by an earlier request the resolved
\* value has a code of 'Deleted' or 'AccessRuleNotFound'.
C8_RepeatedDeleteAccepted ==
  ev.kind = "settle" /\ ev.method = "DELETE" /\ ev.route = "/access/" /\ ev.cause # "network" =>
    /\ ev.outcome = "resolved"
    /\ (ev.ruleGone => CodeOf(ev.value) \in {"Deleted", "AccessRuleNotFound"})

NonSuccessCodes == {"ClientError.NotFound", "ClientError.BadRequest", "AccessRuleNotFound"}

\* C9: when the remote answers with a body whose code is a non-success domain
\* outcome, whatever the status, the promise resolves with that body.
C9_DomainFailureResolves ==
  ev.kind = "settle" /\ ev.answered /\ ev.code \in NonSuccessCodes =>
    ev.outcome = "resolved" /\ ev.value.code = ev.code

\* C10: a promise rejects exactly when the transport failed; an answer of
\* the remote service, whatever its code, never rejects.
C10_RejectIffTransportFailure ==
  ev.kind = "settle" => (ev.outcome = "rejected" <=> ~ev.answered)

\* C11: a deactivateEndpoint call answered by the service resolves to the
\* deserialized response, whose code is 'Deactivated' when the endpoint was
\* activated and 'NotActivated' when it was already deactivated.
C11_DeactivateCodeReadable ==
  ev.kind = "settle" /\ ev.method = "POST" /\ ev.route = "/deactivate"
    /\ ev.answered /\ ev.code \in {"Deactivated", "NotActivated"} =>
      /\ ev.outcome = "resolved"
      /\ CodeOf(ev.value) = IF ev.wasActive THEN "Deactivated" ELSE "NotActivated"

\* C12: activateEndpoint POSTs the caller's document unchanged as the JSON body
\* to <transferBase>/endpoint/<id>/activate; the call yields the code
\* 'ClientError.BadRequest' for an invalid document and 'Activated.TYPE' for a
\* valid one.
C12_ActivateDocumentAndCode ==
  /\ Issued("activateEndpoint") /\ "document" \in DOMAIN ev.options.v =>
       /\ ev.req.method = "POST"
       /\ ev.req.url = <<transferBaseURL, "/endpoint/", Str(Get(ev.options.v, "endpoint_xid")), "/activate">>
       /\ ev.req.hasBody /\ ev.req.json
       /\ ev.req.body = ev.options.v["document"]
  /\ ev.kind = "settle" /\ ev.method = "POST" /\ ev.route = "/activate" /\ ev.answered
       /\ ev.code \in {"ClientError.BadRequest", "Activated.MyProxyCredential"} =>
         /\ ev.outcome = "resolved"
         /\ CodeOf(ev.value) = IF ev.docOK THEN "Activated.MyProxyCredential"
                                           ELSE "ClientError.BadRequest"

\* C13: getActivationRequirements, given the endpoint identifier (as the
\* endpoint_xid option, or as the tests pass it, as the second argument), issues
\* a GET to <transferBase>/endpoint/<id>/activation_requirements; with a valid
\* token it resolves to a document without a code property, with the empty
\* token it resolves to a value that has a code property.
C13_RequirementsOrCode ==
  /\ Issued("getActivationRequirements") =>
       /\ ev.req.method = "GET"
       /\ ev.req.url = <<transferBaseURL, "/endpoint/",
                         IF "str" \in DOMAIN ev.options THEN ev.options.str
                         ELSE Str(Get(ev.options.v, "endpoint_xid")),
                         "/activation_requirements">>
  /\ ev.kind = "settle" /\ ev.method = "GET" /\ ev.route = "/activation_requirements"
       /\ ev.answered =>
         IF ev.auth
         THEN ev.status = 200 /\ ev.code = Undefined =>
                ev.outcome = "resolved" /\ CodeOf(ev.value) = Undefined
         ELSE ev.outcome = "resolved" /\ CodeOf(ev.value) # Undefined

C15_UrlOnFixedBase ==
  ev.kind = "call" /\ ~ev.threw =>
    /\ ev.req.url[1] = IF ev.op = "getUserId" THEN authBaseURL ELSE transferBaseURL
    /\ ev.op = "deleteAccessRule" /\ DOMAIN ev.options.v = {"endpoint_xid", "id"} =>
         /\ ev.req.method = "DELETE"
         /\ ev.req.url = <<transferBaseURL, "/endpoint/", ev.options.v["endpoint_xid"],
                           "/access/", ev.options.v["id"]>>

ListResource ==
  [getSharedEndpointList |-> "/my_shared_endpoint_list",
   getEndpointServerList |-> "/server_list",
   getEffectivePauseRuleList |-> "/my_effective_pause_rule_list"]

\* C16: getSharedEndpointList, getEndpointServerList and
\* getEffectivePauseRuleList issue a GET to <transferBase>/endpoint/<id>/<name>,
\* the identifier unmodified and a '/' between it and the resource name.
C16_IdentifierIsOwnSegment ==
  ev.kind = "call" /\ ~ev.threw /\ ev.op \in DOMAIN ListResource
    /\ "endpoint_xid" \in DOMAIN ev.options.v =>
      /\ ev.req.method = "GET"
      /\ ev.req.url = <<transferBaseURL, "/endpoint/", ev.options.v["endpoint_xid"],
                        ListResource[ev.op]>>

\* C17: updateEndpointById sends the caller's document unchanged as the JSON
\* body of a PUT to <transferBase>/endpoint/<endpoint_xid>.
C17_UpdateEndpointIsPut ==
  Issued("updateEndpointById") /\ "document" \in DOMAIN ev.options.v =>
    /\ ev.req.method = "PUT"
    /\ ev.req.url = <<transferBaseURL, "/endpoint/", Str(Get(ev.options.v, "endpoint_xid"))>>
    /\ ev.req.hasBody /\ ev.req.json
    /\ ev.req.body = ev.options.v["document"]

\* C18: updateEndpointServerById issues a PUT to
\* <transferBase>/endpoint/<id>/server/<server_id> whose body holds no value
\* for a field (hostname, port, scheme, subject) the caller did not supply.
C18_OnlySuppliedFieldsSent ==
  Issued("updateEndpointServerById") =>
    /\ ev.req.method = "PUT"
    /\ ev.req.url = <<transferBaseURL, "/endpoint/", Str(Get(ev.options.v, "endpoint_xid")),
                      "/server/", Str(Get(ev.options.v, "server_id"))>>
    /\ \A k \in {"hostname", "port", "scheme", "subject"} :
         IF k \in DOMAIN ev.options.v
         THEN Get(ev.req.body, k) = ev.options.v[k]
         ELSE k \notin DOMAIN ev.req.body

ListShape ==
  /\ ev.req.method = "GET"
  /\ ~ev.req.hasBody
  /\ Len(ev.req.url) = 6
  /\ SubSeq(ev.req.url, 1, 4) =
       <<transferBaseURL, "/operation/endpoint/", Str(Get(ev.options.v, "endpoint_xid")), "/ls?path=">>
  /\ ev.req.url[6] = IF "query_parameters" \in DOMAIN ev.options.v
                     THEN ev.options.v["query_parameters"] ELSE ""

TransferFields ==
  {"submission_id", "label", "notify_on_succeeded", "notify_on_failed", "notify_on_inactive",
   "source_endpoint", "destination_endpoint", "DATA", "encrypt_data", "sync_level",
   "verify_checksum", "preserve_timestamp", "delete_destination_extra"}

\* C20: submitTransferTask issues a POST to <transferBase>/transfer whose JSON
\* body has DATA_TYPE 'transfer' and, for each transfer field, exactly the
\* caller's value; a caller without a submission id sends a body without one.
C20_TransferBodyFromOptions ==
  Issued("submitTransferTask") =>
    /\ ev.req.method = "POST"
    /\ ev.req.url = <<transferBaseURL, "/transfer">>
    /\ ev.req.hasBody /\ ev.req.json
    /\ DOMAIN ev.req.body \subseteq TransferFields \cup {"DATA_TYPE"}
    /\ Get(ev.req.body, "DATA_TYPE") = "transfer"
    /\ \A k \in TransferFields : Get(ev.req.body, k) = Get(ev.options.v, k)
    /\ ev.sent /\ nOutbound <= ev.n

C20_Witness ==
  /\ Issued("submitTransferTask")
  /\ "submission_id" \notin DOMAIN ev.options.v
  /\ "submission_id" \notin DOMAIN ev.req.body
  /\ Get(ev.req.body, "preserve_timestamp") = "false"
  /\ Get(ev.req.body, "verify_checksum") = "true"

\* C21: a call with a required field missing (endpoint_xid absent for
\* getEndpointById or deactivateEndpoint) fails fast, and no request whose URL
\* holds the placeholder 'undefined' for a missing value is ever sent.
C21_MissingFieldFailsFast ==
  ev.kind = "call" =>
    /\ ev.op \in {"getEndpointById", "deactivateEndpoint"}
         /\ "endpoint_xid" \notin DOMAIN ev.options.v => ev.threw /\ ~ev.sent
    /\ ev.sent => ~Contains(ev.req.url, "undefined")

====
